---- MODULE Spec2Model ----
(***************************************************************************)
(* Model of youtubeservice (src/src/server.rs, src/src/youtube.rs,         *)
(* src/src/models.rs): the fetch loop fetch_messages, the persistence gate *)
(* insert_chat_message, the tokio broadcast channel created in main and    *)
(* the per-subscriber relay task spawned by subscribe_messages.            *)
(***************************************************************************)
EXTENDS Integers, Sequences, FiniteSets, TLC

\* ---------------------------------------------------------------- bounds
\* list requests of a run, items of a page, items of a run, subscribers
MaxPolls == 3
MaxPage == 2
MaxItems == 3
MaxSubs == 1
\* list requests and subscribers of the runs that exercise the fan-out
MaxFanoutPolls == 3
MaxFanoutSubs == 2
\* list requests of the runs with one stalled subscriber
MaxStallPolls == 6
\* concurrent callers of insert_chat_message
MaxCallers == 2
\* list requests and send_message calls of the runs with outbound messages
MaxSendPolls == 2
MaxSends == 2
\* list requests and get_messages calls of the runs with queries
MaxQueryPolls == 2
MaxGets == 1
\* list requests of the runs that overflow the broadcast channel, and the
\* number of messages after which the second client connects in them
MaxLagPolls == 107
LateJoin == 103
\* list requests of the runs in which clients connect at any time
MaxJoinPolls == 3
MaxLookups == 2
MaxMainPolls == 2

\* ------------------------------------------------------ program constants
\* tokio::sync::broadcast::channel(100), server.rs:399
BroadcastCapacity == 100
\* mpsc::channel(4), server.rs:156
MpscCapacity == 4

None == "None"

\* external message ids, live chat ids, page tokens, polling intervals
MessageIds == {"a", "b"}
ChatIds == {"c1", "c2"}
Tokens == {"t1", "t2"}
Intervals == {1, 2}

Subs == 1..MaxFanoutSubs
Callers == 1..MaxCallers

\* -------------------------------------------------------- upstream items
\* The Option fields of a LiveChatMessage that fetch_messages unwraps
\* (server.rs:296-318).  "bad_time" is a published_at that is present but
\* is not RFC 3339.
Fields ==
    {"author_details", "channel_id", "display_name", "snippet", "type_",
     "published_at", "bad_time", "id", "display_message"}

TextType == "textMessageEvent"
OtherType == "superChatEvent"

\* An upstream item: its id, its snippet type, its published-at, and the
\* field it lacks (None: complete).
TextItems ==
    {[id |-> "a", type |-> TextType, sent_at |-> 1, missing |-> None],
     [id |-> "a", type |-> TextType, sent_at |-> 2, missing |-> None],
     [id |-> "b", type |-> TextType, sent_at |-> 2, missing |-> None]}

GoodItems ==
    TextItems \cup [id : {"a"}, type : {OtherType}, sent_at : {1}, missing : {None}]

DefectiveItems ==
    [id : {"a"}, type : {TextType}, sent_at : {1},
     missing : {"author_details", "bad_time", "display_message"}]
      \cup [id : {"a"}, type : {OtherType}, sent_at : {1},
            missing : {"author_details", "display_message"}]

Items == GoodItems \cup DefectiveItems

RECURSIVE SeqsUpTo(_, _)
SeqsUpTo(S, n) ==
    IF n = 0 THEN {<<>>}
    ELSE LET shorter == SeqsUpTo(S, n - 1)
         IN  shorter \cup {Append(q, x) : q \in {p \in shorter : Len(p) = n - 1}, x \in S}

Pages == SeqsUpTo(Items, MaxPage)

\* The outcome of live_chat_messages().list(..).doit() (server.rs:250):
\* Err, or Ok with response.items None, or Ok with a page.  The Option
\* polling_interval_millis is <<>> (None) or <<w>> (Some(w)).
FailedResponses ==
    [kind : {"err", "noitems"}, items : {<<>>}, next_page_token : {None},
     polling_interval_millis : {<<>>}]

PollResponses ==
    FailedResponses
      \cup [kind : {"ok"}, items : Pages, next_page_token : Tokens \cup {None},
            polling_interval_millis : {<<>>} \cup {<<w>> : w \in Intervals}]

\* The upstream of the fan-out runs: every request returns one text message.
FanoutItems ==
    {[id |-> "a", type |-> TextType, sent_at |-> 1, missing |-> None],
     [id |-> "b", type |-> TextType, sent_at |-> 2, missing |-> None]}

FanoutResponses ==
    [kind : {"ok"}, items : {<<i>> : i \in FanoutItems}, next_page_token : {None},
     polling_interval_millis : {<<1>>}]

\* The outcome of the live_broadcasts().list(..) request of get_livechat_id
\* (youtube.rs:64-76): Err, items None, an empty list, a first broadcast
\* without snippet, a snippet without live_chat_id, or a snippet with one.
BroadcastResponses ==
    {"err", "noitems", "empty", "nosnippet", "nochatid"} \cup ChatIds

VARIABLES
    \* fetch_messages (server.rs:227-341)
    pc,                 \* position of the fetch loop
    livechat_id_clone,  \* server.rs:235
    page_token,         \* server.rs:237
    items,              \* rest of the page being iterated (server.rs:295)
    wait_for_millis,    \* server.rs:292 (0: not in scope)
    chat_message,       \* server.rs:320
    insert_result,      \* server.rs:328
    \* history of the fetch loop
    polls,              \* number of list requests issued
    fetched,            \* number of items the requests returned
    resolutions,        \* get_livechat_id calls since the last list request
    resolved,           \* the id such a call returned, None if none did
    received,           \* the items of every page returned, in request order
    response_token,     \* next_page_token of the last page returned
    pending_delay,      \* what is left to wait of its polling interval
    ingested,           \* ids whose insert_chat_message returned Ok
    \* livechat_messages table
    rows,               \* the table, in insertion order
    unique_youtube_id,  \* whether the table has a unique index on youtube_id
    \* broadcast channel (server.rs:399)
    sent,               \* every value the channel accepted, in send order
    \* subscribe_messages (server.rs:151-176), per subscriber
    relay,              \* position of the spawned relay task
    next,               \* message_rx: index in sent of the next value
    registered_at,      \* Len(sent) when message_rx was created
    message,            \* the value the relay holds between recv and send
    chan,               \* the mpsc channel of capacity 4
    rx_open,            \* the ReceiverStream is still held by the client
    delivered,          \* what the client has read from its stream
    \* concurrent callers of insert_chat_message
    caller_pc, caller_id, caller_result,
    \* main (server.rs:352-417), YouTubeServiceImpl (server.rs:90-95) and its
    \* unary calls
    yts_livechat_id,    \* the environment variable YTS_LIVECHAT_ID, None if unset
    livechat_id,        \* the field set by new (server.rs:107)
    submitted,          \* the live_chat_messages().insert requests, with outcome
    send_calls,         \* number of send_message calls that returned
    send_response,      \* what the last send_message call returned
    get_calls,          \* number of get_messages calls that ended
    get_request,        \* the GetMessageRequest of the last call
    get_response        \* what the last get_messages call returned

fetchVars ==
    <<pc, livechat_id_clone, page_token, items, wait_for_millis, chat_message,
      insert_result, polls, fetched, resolutions, resolved, received,
      response_token, pending_delay, ingested>>
storeVars == <<rows, unique_youtube_id>>
subVars == <<relay, next, registered_at, message, chan, rx_open, delivered>>
callerVars == <<caller_pc, caller_id, caller_result>>
sendVars == <<submitted, send_calls, send_response>>
getVars == <<get_calls, get_request, get_response>>
rpcVars == <<yts_livechat_id, livechat_id, sendVars, getVars>>
vars == <<fetchVars, storeVars, sent, subVars, callerVars, rpcVars>>


\* ------------------------------------------------------ livechat_messages
\* select(exists(livechat_messages.filter(youtube_id.eq(..)))), server.rs:207-209
Exists(table, id) == \E i \in 1..Len(table) : table[i].youtube_id = id

\* InsertLivechatMessage::from(&YouTubeChatMessage), models.rs:51-69: the
\* message id becomes youtube_id, the sent_at timestamp becomes the column.
InsertLivechatMessage(m) == [youtube_id |-> m.message_id, sent_at |-> m.sent_at]

\* diesel::insert_into(..).values(..).execute(..), server.rs:221-223.  ok is
\* FALSE when the pool or the statement fails; with a unique index on
\* youtube_id the statement also fails when the id is already stored.
ExecuteInsert(table, row, unique, ok) ==
    IF ~ok THEN [rows |-> table, result |-> "Err"]
    ELSE IF unique /\ Exists(table, row.youtube_id)
         THEN [rows |-> table, result |-> "Err"]
    ELSE [rows |-> Append(table, row), result |-> "Ok"]

\* insert_chat_message with the test of exists inverted.
InsertChatMessageInverted(table, unique, m, exists_ok, insert_ok) ==
    IF ~exists_ok THEN [rows |-> table, result |-> "Err"]
    ELSE IF ~Exists(table, m.message_id) THEN [rows |-> table, result |-> "Ok"]
    ELSE ExecuteInsert(table, InsertLivechatMessage(m), unique, insert_ok)

\* insert_chat_message run without interruption, server.rs:198-225.
\* exists_ok, insert_ok: whether the storage answers the two statements.
InsertChatMessage(table, unique, m, exists_ok, insert_ok) ==
    IF ~exists_ok THEN [rows |-> table, result |-> "Err"]
    ELSE IF Exists(table, m.message_id) THEN [rows |-> table, result |-> "Ok"]
    ELSE ExecuteInsert(table, InsertLivechatMessage(m), unique, insert_ok)

\* ---------------------------------------------------------- fetch_messages
\* The unwraps every item goes through before the match (server.rs:296-312)
\* and the one only a text message goes through (server.rs:318).
Panics(item) ==
    \/ item.missing \in Fields \ {"display_message"}
    \/ item.type = TextType /\ item.missing = "display_message"

\* YouTubeChatMessage built at server.rs:320-327.
ChatMessage(item) == [message_id |-> item.id, sent_at |-> item.sent_at]

\* broadcast receivers alive: the message_rx of every relay task that runs.
Receivers == {s \in Subs : relay[s] \in {"recv", "check", "send"}}

\* server.rs:241-248: the list request of the next iteration, for the live
\* chat id in use, with the page token when there is one.
ListRequest ==
    [live_chat_id |-> livechat_id_clone, page_token |-> page_token]

\* server.rs:239-250 and 252-293: one list request and the branch on it.
ListMessages(responses, max_polls, max_items) ==
    /\ pc = "poll"
    /\ polls < max_polls
    /\ polls' = polls + 1
    /\ resolutions' = 0
    /\ resolved' = None
    /\ \E r \in responses :
         /\ fetched + Len(r.items) <= max_items
         /\ fetched' = fetched + Len(r.items)
         /\ IF r.kind \in {"err", "noitems"}
            THEN /\ pc' = "recover"
                 /\ UNCHANGED <<page_token, items, wait_for_millis, received,
                                response_token, pending_delay>>
            ELSE /\ page_token' = r.next_page_token
                 /\ received' = received \o r.items
                 /\ response_token' = r.next_page_token
                 /\ IF r.polling_interval_millis = <<>>
                    THEN /\ pc' = "panicked"
                         /\ UNCHANGED <<items, wait_for_millis, pending_delay>>
                    ELSE /\ wait_for_millis' = r.polling_interval_millis[1]
                         /\ pending_delay' = r.polling_interval_millis[1]
                         /\ items' = r.items
                         /\ pc' = IF r.items = <<>> THEN "sleep" ELSE "map"
    /\ UNCHANGED <<livechat_id_clone, chat_message, insert_result, ingested,
                   storeVars, sent, subVars, callerVars, rpcVars>>

Poll == ListMessages(PollResponses, MaxPolls, MaxItems)

FanoutPoll == ListMessages(FanoutResponses, MaxFanoutPolls, MaxFanoutPolls)

StallPoll == ListMessages(FanoutResponses, MaxStallPolls, MaxStallPolls)

\* get_livechat_id, youtube.rs:63-90, on the outcome r of its request.
GetLivechatId(r) ==
    IF r \in {"err", "noitems", "empty", "nochatid"} THEN None
    ELSE IF r = "nosnippet" THEN "panic"
    ELSE r

\* A recovery that takes over what get_livechat_id returned also when it
\* returned no id.
RecoverAdoptingNone ==
    /\ pc = "recover"
    /\ resolutions' = resolutions + 1
    /\ \E r \in BroadcastResponses :
         LET livechat_id_result == GetLivechatId(r) IN
         IF livechat_id_result = "panic"
         THEN pc' = "panicked" /\ UNCHANGED <<livechat_id_clone, resolved>>
         ELSE IF livechat_id_result = None
         THEN /\ pc' = "backoff"
              /\ livechat_id_clone' = None
              /\ UNCHANGED resolved
         ELSE /\ pc' = "poll"
              /\ livechat_id_clone' = livechat_id_result
              /\ resolved' = livechat_id_result
    /\ UNCHANGED <<page_token, items, wait_for_millis, chat_message, insert_result,
                   polls, fetched, received, response_token, pending_delay, ingested,
                   storeVars, sent, subVars, callerVars, rpcVars>>

\* server.rs:256-266 and 278-289: the recovery after a failed poll.
Recover ==
    /\ pc = "recover"
    /\ resolutions' = resolutions + 1
    /\ \E r \in BroadcastResponses :
         LET livechat_id_result == GetLivechatId(r) IN
         IF livechat_id_result = "panic"
         THEN pc' = "panicked" /\ UNCHANGED <<livechat_id_clone, resolved>>
         ELSE IF livechat_id_result = None
         THEN pc' = "backoff" /\ UNCHANGED <<livechat_id_clone, resolved>>
         ELSE /\ pc' = "poll"
              /\ livechat_id_clone' = livechat_id_result
              /\ resolved' = livechat_id_result
    /\ UNCHANGED <<page_token, items, wait_for_millis, chat_message, insert_result,
                   polls, fetched, received, response_token, pending_delay, ingested, storeVars, sent, subVars, callerVars, rpcVars>>

\* server.rs:262 and 284: sleep(10 s), then continue.
Backoff ==
    /\ pc = "backoff"
    /\ pc' = "poll"
    /\ UNCHANGED <<livechat_id_clone, page_token, items, wait_for_millis,
                   chat_message, insert_result, polls, fetched, resolutions, resolved,
                   received, response_token, pending_delay, ingested, storeVars, sent, subVars, callerVars, rpcVars>>

\* server.rs:295-327 and 334: one item of the page is unwrapped and matched.
MapItem ==
    /\ pc = "map"
    /\ LET msg == Head(items) IN
       IF Panics(msg)
       THEN pc' = "panicked" /\ UNCHANGED <<items, chat_message>>
       ELSE IF msg.type = TextType
       THEN /\ chat_message' = ChatMessage(msg)
            /\ pc' = "insert"
            /\ UNCHANGED items
       ELSE /\ items' = Tail(items)
            /\ pc' = IF Tail(items) = <<>> THEN "sleep" ELSE "map"
            /\ UNCHANGED chat_message
    /\ UNCHANGED <<livechat_id_clone, page_token, wait_for_millis, insert_result,
                   polls, fetched, resolutions, resolved, received, response_token, pending_delay, ingested, storeVars, sent,
                   subVars, callerVars, rpcVars>>

\* server.rs:328-331: insert_chat_message and the logging of its error.
StoreMessage(availability) ==
    /\ pc = "insert"
    /\ \E exists_ok \in availability, insert_ok \in availability :
         LET r == InsertChatMessage(rows, unique_youtube_id, chat_message,
                                    exists_ok, insert_ok) IN
         /\ rows' = r.rows
         /\ insert_result' = r.result
         /\ ingested' = IF r.result = "Ok"
                        THEN ingested \cup {chat_message.message_id}
                        ELSE ingested
    /\ pc' = "publish"
    /\ UNCHANGED <<livechat_id_clone, page_token, items, wait_for_millis,
                   chat_message, polls, fetched, resolutions, resolved, received, response_token, pending_delay, unique_youtube_id,
                   sent, subVars, callerVars, rpcVars>>

\* The storage may fail any statement; in the fan-out runs it is available.
Insert == StoreMessage(BOOLEAN)

FanoutInsert == StoreMessage({TRUE})

\* broadcast::Sender::send: Err when no receiver is alive, otherwise the
\* value is stored for every receiver.
SenderSend(log, receivers, value) ==
    IF receivers = {} THEN [sent |-> log, result |-> "Err"]
    ELSE [sent |-> Append(log, value), result |-> "Ok"]

\* A publish that hands the message to every subscriber's mpsc channel itself
\* and so waits until each of them has room.
PublishAwaitingRoom ==
    /\ pc = "publish"
    /\ \A s \in Receivers : Len(chan[s]) < MpscCapacity
    /\ sent' = Append(sent, chat_message)
    /\ items' = Tail(items)
    /\ pc' = IF Tail(items) = <<>> THEN "sleep" ELSE "map"
    /\ chat_message' = None
    /\ insert_result' = None
    /\ UNCHANGED <<livechat_id_clone, page_token, wait_for_millis, polls,
                   fetched, resolutions, resolved, received, response_token, pending_delay, ingested, storeVars, subVars,
                   callerVars, rpcVars>>

\* A publish after which the loop leaves the rest of the page and goes to
\* its sleep.
PublishAbandoningPage ==
    /\ pc = "publish"
    /\ LET r == SenderSend(sent, Receivers, chat_message) IN
       /\ sent' = r.sent
       /\ IF r.result = "Err"
          THEN pc' = "returned" /\ UNCHANGED items
          ELSE items' = <<>> /\ pc' = "sleep"
    /\ chat_message' = None
    /\ insert_result' = None
    /\ UNCHANGED <<livechat_id_clone, page_token, wait_for_millis, polls,
                   fetched, resolutions, resolved, received, response_token, pending_delay, ingested, storeVars,
                   subVars, callerVars, rpcVars>>

\* server.rs:332: tx.send(chat_message)?, then the next item of the page; the
\* message is moved into send and insert_result goes out of scope.
Publish ==
    /\ pc = "publish"
    /\ LET r == SenderSend(sent, Receivers, chat_message) IN
       /\ sent' = r.sent
       /\ IF r.result = "Err"
          THEN pc' = "returned" /\ UNCHANGED items
          ELSE /\ items' = Tail(items)
               /\ pc' = IF Tail(items) = <<>> THEN "sleep" ELSE "map"
    /\ chat_message' = None
    /\ insert_result' = None
    /\ UNCHANGED <<livechat_id_clone, page_token, wait_for_millis, polls,
                   fetched, resolutions, resolved, received, response_token, pending_delay, ingested, storeVars, subVars, callerVars, rpcVars>>

\* A sleep of the shortest polling interval whatever the page asked for.
SleepShortest ==
    /\ pc = "sleep"
    /\ pc' = "poll"
    /\ pending_delay' = pending_delay - 1
    /\ wait_for_millis' = 0
    /\ UNCHANGED <<livechat_id_clone, page_token, items, chat_message,
                   insert_result, polls, fetched, resolutions, resolved, received,
                   response_token, ingested,
                   storeVars, sent, subVars, callerVars, rpcVars>>

\* server.rs:339: sleep(wait_for_millis), then the next iteration.
Sleep ==
    /\ pc = "sleep"
    /\ pc' = "poll"
    /\ pending_delay' = pending_delay - wait_for_millis
    /\ wait_for_millis' = 0
    /\ UNCHANGED <<livechat_id_clone, page_token, items, chat_message,
                   insert_result, polls, fetched, resolutions, resolved, received,
                   response_token, ingested,
                   storeVars, sent, subVars, callerVars, rpcVars>>


\* -------------------------------------------------------- subscribe_messages
\* fetch_messages runs inside main's join! (server.rs:409-414): a panic in
\* it unwinds main and ends the process, the server and the relay tasks
\* with it.  Before the join! main is in its loop of server.rs:381-394 and
\* no server exists; after fetch_messages has returned the join! still
\* waits for the server.
AliveWhileFetching == pc \notin {"lookup", "retry", "panicked", "returned"}

Alive == pc \notin {"lookup", "retry", "panicked"}

\* subscribe_messages whose receiver starts at the oldest value of the
\* channel instead of at its end.
SubscribeMessagesFromOldest(s) ==
    /\ Alive
    /\ relay[s] = "none"
    /\ \A t \in Subs : t < s => relay[t] # "none"
    /\ relay' = [relay EXCEPT ![s] = "recv"]
    /\ next' = [next EXCEPT ![s] = 1]
    /\ registered_at' = [registered_at EXCEPT ![s] = Len(sent)]
    /\ rx_open' = [rx_open EXCEPT ![s] = TRUE]
    /\ UNCHANGED <<fetchVars, storeVars, sent, message, chan, delivered, callerVars, rpcVars>>

\* server.rs:156-175: the mpsc channel, the broadcast receiver, the spawned
\* relay task.  A receiver created by subscribe() sees only later values.
SubscribeMessages(s) ==
    /\ Alive
    /\ relay[s] = "none"
    /\ \A t \in Subs : t < s => relay[t] # "none"
    /\ relay' = [relay EXCEPT ![s] = "recv"]
    /\ next' = [next EXCEPT ![s] = Len(sent) + 1]
    /\ registered_at' = [registered_at EXCEPT ![s] = Len(sent)]
    /\ rx_open' = [rx_open EXCEPT ![s] = TRUE]
    /\ UNCHANGED <<fetchVars, storeVars, sent, message, chan, delivered, callerVars, rpcVars>>

\* broadcast::Receiver::recv on the log: Lagged when more than the capacity
\* is unread, the next value when there is one, otherwise it waits.
Lagged(s) == Len(sent) - (next[s] - 1) > BroadcastCapacity

\* recv that yields the latest value of the channel and skips the others.
RelayRecvLatest(s) ==
    /\ Alive
    /\ relay[s] = "recv"
    /\ next[s] <= Len(sent)
    /\ message' = [message EXCEPT ![s] = sent[Len(sent)]]
    /\ next' = [next EXCEPT ![s] = Len(sent) + 1]
    /\ relay' = [relay EXCEPT ![s] = "check"]
    /\ UNCHANGED <<fetchVars, storeVars, sent, registered_at, chan, rx_open,
                   delivered, callerVars, rpcVars>>

\* recv that, finding the receiver overflowed, goes on with the oldest value
\* the channel still holds.
RelayRecvSkipping(s) ==
    /\ Alive
    /\ relay[s] = "recv"
    /\ next[s] <= Len(sent)
    /\ LET from == IF Lagged(s) THEN Len(sent) - BroadcastCapacity + 1 ELSE next[s] IN
         /\ message' = [message EXCEPT ![s] = sent[from]]
         /\ next' = [next EXCEPT ![s] = from + 1]
    /\ relay' = [relay EXCEPT ![s] = "check"]
    /\ UNCHANGED <<fetchVars, storeVars, sent, registered_at, chan, rx_open,
                   delivered, callerVars, rpcVars>>

\* server.rs:162: while let Ok(message) = message_rx.recv().await
RelayRecv(s) ==
    /\ Alive
    /\ relay[s] = "recv"
    /\ IF Lagged(s)
       THEN /\ relay' = [relay EXCEPT ![s] = "done"]
            /\ UNCHANGED <<next, message>>
       ELSE /\ next[s] <= Len(sent)
            /\ message' = [message EXCEPT ![s] = sent[next[s]]]
            /\ next' = [next EXCEPT ![s] = next[s] + 1]
            /\ relay' = [relay EXCEPT ![s] = "check"]
    /\ UNCHANGED <<fetchVars, storeVars, sent, registered_at, chan, rx_open,
                   delivered, callerVars, rpcVars>>

\* server.rs:163-166: if tx.is_closed() { break }
RelayCheck(s) ==
    /\ Alive
    /\ relay[s] = "check"
    /\ IF ~rx_open[s]
       THEN /\ relay' = [relay EXCEPT ![s] = "done"]
            /\ message' = [message EXCEPT ![s] = None]
       ELSE /\ relay' = [relay EXCEPT ![s] = "send"]
            /\ UNCHANGED message
    /\ UNCHANGED <<fetchVars, storeVars, sent, next, registered_at, chan, rx_open,
                   delivered, callerVars, rpcVars>>

\* server.rs:168-170: tx.send(Ok(message)).await waits for room in the
\* channel; on a closed channel it is an Err that is printed.
RelaySend(s) ==
    /\ Alive
    /\ relay[s] = "send"
    /\ IF ~rx_open[s]
       THEN UNCHANGED chan
       ELSE /\ Len(chan[s]) < MpscCapacity
            /\ chan' = [chan EXCEPT ![s] = Append(chan[s], message[s])]
    /\ message' = [message EXCEPT ![s] = None]
    /\ relay' = [relay EXCEPT ![s] = "recv"]
    /\ UNCHANGED <<fetchVars, storeVars, sent, next, registered_at, rx_open,
                   delivered, callerVars, rpcVars>>

\* The client reads the next value of the ReceiverStream (server.rs:175).
Consume(s) ==
    /\ Alive
    /\ rx_open[s]
    /\ chan[s] # <<>>
    /\ delivered' = [delivered EXCEPT ![s] = Append(delivered[s], Head(chan[s]))]
    /\ chan' = [chan EXCEPT ![s] = Tail(chan[s])]
    /\ UNCHANGED <<fetchVars, storeVars, sent, relay, next, registered_at, message,
                   rx_open, callerVars, rpcVars>>

\* The client disconnects: the ReceiverStream is dropped with what it holds.
Disconnect(s) ==
    /\ Alive
    /\ rx_open[s]
    /\ rx_open' = [rx_open EXCEPT ![s] = FALSE]
    /\ chan' = [chan EXCEPT ![s] = <<>>]
    /\ UNCHANGED <<fetchVars, storeVars, sent, relay, next, registered_at, message,
                   delivered, callerVars, rpcVars>>

\* ------------------------------------- concurrent insert_chat_message calls
\* The storage answers every statement of these calls.
\* The message caller c passes: the id it was given, its own content.
CallerMessage(c) == [message_id |-> caller_id[c], sent_at |-> c]

\* server.rs:207-217: the exists statement of caller c.
CallerExists(c) ==
    /\ caller_pc[c] = "exists"
    /\ \E exists_ok \in {TRUE} :
         IF ~exists_ok
         THEN /\ caller_pc' = [caller_pc EXCEPT ![c] = "done"]
              /\ caller_result' = [caller_result EXCEPT ![c] = "Err"]
         ELSE IF Exists(rows, caller_id[c])
         THEN /\ caller_pc' = [caller_pc EXCEPT ![c] = "done"]
              /\ caller_result' = [caller_result EXCEPT ![c] = "Ok"]
         ELSE /\ caller_pc' = [caller_pc EXCEPT ![c] = "insert"]
              /\ UNCHANGED caller_result
    /\ UNCHANGED <<fetchVars, storeVars, sent, subVars, caller_id, rpcVars>>

\* server.rs:220-224: the insert statement of caller c.
CallerInsert(c) ==
    /\ caller_pc[c] = "insert"
    /\ \E insert_ok \in {TRUE} :
         LET r == ExecuteInsert(rows, InsertLivechatMessage(CallerMessage(c)),
                                unique_youtube_id, insert_ok) IN
         /\ rows' = r.rows
         /\ caller_result' = [caller_result EXCEPT ![c] = r.result]
    /\ caller_pc' = [caller_pc EXCEPT ![c] = "done"]
    /\ UNCHANGED <<fetchVars, unique_youtube_id, sent, subVars, caller_id, rpcVars>>

\* --------------------------------------------------------------- send_message
\* The texts a caller sends.
Texts == {"hello"}

\* The outcome of live_chat_messages().insert(..).doit() (server.rs:131-137):
\* Ok, or one of the google_youtube3::Error values with what it carries.
Accepted == [kind |-> "Ok", detail |-> ""]

UpstreamErrors ==
    {[kind |-> "BadRequest", detail |-> "forbidden"],
     [kind |-> "Io", detail |-> "connection reset"]}

InsertOutcomes == {Accepted} \cup UpstreamErrors

\* log_google_errors, log.rs:85-139: the name of the variant (IOError for
\* Io), a colon, what the error carries.
LogGoogleErrors(e) ==
    <<IF e.kind = "Io" THEN "IOError" ELSE e.kind, ": ", e.detail>>

\* server.rs:121-128: the LiveChatMessage send_message builds.
LivechatMessage(id, text) ==
    [type_ |-> TextType, live_chat_id |-> id, message_text |-> text]

\* server.rs:139-146: the response of send_message to the outcome.
Empty == [code |-> "Ok", message |-> <<>>]

SendResponse(outcome) ==
    IF outcome \in UpstreamErrors
    THEN [code |-> "Internal", message |-> LogGoogleErrors(outcome)]
    ELSE Empty

\* send_message that repeats a rejected insert request once and answers
\* with the outcome of the repetition.
SendMessageRetrying ==
    /\ Alive
    /\ send_calls < MaxSends
    /\ \E text \in Texts, first \in InsertOutcomes, second \in InsertOutcomes :
         LET request(o) == [message |-> LivechatMessage(livechat_id, text),
                            outcome |-> o] IN
         IF first \in UpstreamErrors
         THEN /\ submitted' = submitted \o <<request(first), request(second)>>
              /\ send_response' = SendResponse(second)
         ELSE /\ submitted' = Append(submitted, request(first))
              /\ send_response' = SendResponse(first)
    /\ send_calls' = send_calls + 1
    /\ UNCHANGED <<fetchVars, storeVars, sent, subVars, callerVars, yts_livechat_id, livechat_id,
                   getVars>>

\* send_message, server.rs:115-147: one insert request, one response.
SendMessage ==
    /\ Alive
    /\ send_calls < MaxSends
    /\ \E text \in Texts, outcome \in InsertOutcomes :
         /\ submitted' = Append(submitted,
                                [message |-> LivechatMessage(livechat_id, text),
                                 outcome |-> outcome])
         /\ send_response' = SendResponse(outcome)
    /\ send_calls' = send_calls + 1
    /\ UNCHANGED <<fetchVars, storeVars, sent, subVars, callerVars, yts_livechat_id, livechat_id,
                   getVars>>

\* --------------------------------------------------------------- get_messages
\* The limits and offsets a caller asks for.
Limits == {0, 1, 10}
Offsets == {0, 1}

\* order(sent_at.desc()), server.rs:188: the orders of the rows in which
\* sent_at never increases.  Rows of equal sent_at come in any order.
OrderBySentAtDesc(table) ==
    LET n == Len(table)
        orders == {f \in [1..n -> 1..n] :
                     /\ \A i, j \in 1..n : i # j => f[i] # f[j]
                     /\ \A i, j \in 1..n :
                           i < j => table[f[i]].sent_at >= table[f[j]].sent_at}
    IN  {[i \in 1..n |-> table[f[i]]] : f \in orders}

\* limit(..).offset(..), server.rs:189-190, on the ordered rows.
LimitOffset(q, limit, offset) ==
    SubSeq(q, offset + 1, IF offset + limit < Len(q) THEN offset + limit ELSE Len(q))

\* From<&LivechatMessage> for YouTubeChatMessage, server.rs:55-73.
YouTubeChatMessage(row) == [message_id |-> row.youtube_id, sent_at |-> row.sent_at]

Converted(results) == [i \in 1..Len(results) |-> YouTubeChatMessage(results[i])]

\* get_messages, server.rs:178-195.  When the pool or the query fails the
\* unwrap at server.rs:186 or 192 panics in the task of the call: the caller
\* gets no messages.
GetMessages ==
    /\ Alive
    /\ get_calls < MaxGets
    /\ get_calls' = get_calls + 1
    /\ \E limit \in Limits, offset \in Offsets, available \in BOOLEAN :
         /\ get_request' = [limit |-> limit, offset |-> offset]
         /\ IF ~available
            THEN get_response' = [code |-> "panicked", messages |-> <<>>]
            ELSE \E q \in OrderBySentAtDesc(rows) :
                   get_response' =
                       [code |-> "Ok",
                        messages |-> Converted(LimitOffset(q, limit, offset))]
    /\ UNCHANGED <<fetchVars, storeVars, sent, subVars, callerVars, yts_livechat_id, livechat_id,
                   sendVars>>

\* ----------------------------------------------------------------------- main
\* The loop of server.rs:381-394 that skips the sleep and goes on to the
\* join! when get_livechat_id returned no id.
DetermineLivechatIdOnce ==
    /\ pc = "lookup"
    /\ IF yts_livechat_id # None
       THEN /\ pc' = "poll"
            /\ livechat_id' = yts_livechat_id
            /\ livechat_id_clone' = yts_livechat_id
            /\ UNCHANGED <<resolutions, resolved>>
       ELSE /\ resolutions < MaxLookups
            /\ resolutions' = resolutions + 1
            /\ \E r \in BroadcastResponses :
                 LET livechat_id_opt == GetLivechatId(r) IN
                 IF livechat_id_opt = "panic"
                 THEN /\ pc' = "panicked"
                      /\ UNCHANGED <<livechat_id, livechat_id_clone, resolved>>
                 ELSE IF livechat_id_opt = None
                 THEN /\ pc' = "poll"
                      /\ UNCHANGED <<livechat_id, livechat_id_clone, resolved>>
                 ELSE /\ pc' = "poll"
                      /\ livechat_id' = livechat_id_opt
                      /\ livechat_id_clone' = livechat_id_opt
                      /\ resolved' = livechat_id_opt
    /\ UNCHANGED <<page_token, items, wait_for_millis, chat_message, insert_result,
                   polls, fetched, received, response_token, pending_delay, ingested,
                   storeVars, sent, subVars, callerVars, yts_livechat_id, sendVars,
                   getVars>>

\* main, server.rs:381-414: one iteration of the loop that determines the
\* livechat id.  With YTS_LIVECHAT_ID set the id is its value; otherwise it
\* is what get_livechat_id returns.  With no id the iteration ends in the
\* 30 s sleep; with an id the loop ends, the service is created with the id
\* and the join! starts the server and fetch_messages, which takes the id
\* as its livechat_id_clone (server.rs:235).  The panic of get_livechat_id
\* (youtube.rs:85) unwinds main.
DetermineLivechatId ==
    /\ pc = "lookup"
    /\ IF yts_livechat_id # None
       THEN /\ pc' = "poll"
            /\ livechat_id' = yts_livechat_id
            /\ livechat_id_clone' = yts_livechat_id
            /\ UNCHANGED <<resolutions, resolved>>
       ELSE /\ resolutions < MaxLookups
            /\ resolutions' = resolutions + 1
            /\ \E r \in BroadcastResponses :
                 LET livechat_id_opt == GetLivechatId(r) IN
                 IF livechat_id_opt = "panic"
                 THEN /\ pc' = "panicked"
                      /\ UNCHANGED <<livechat_id, livechat_id_clone, resolved>>
                 ELSE IF livechat_id_opt = None
                 THEN /\ pc' = "retry"
                      /\ UNCHANGED <<livechat_id, livechat_id_clone, resolved>>
                 ELSE /\ pc' = "poll"
                      /\ livechat_id' = livechat_id_opt
                      /\ livechat_id_clone' = livechat_id_opt
                      /\ resolved' = livechat_id_opt
    /\ UNCHANGED <<page_token, items, wait_for_millis, chat_message, insert_result,
                   polls, fetched, received, response_token, pending_delay, ingested,
                   storeVars, sent, subVars, callerVars, yts_livechat_id, sendVars,
                   getVars>>

\* server.rs:390-393: sleep(30 s), then the next iteration.
RetrySleep ==
    /\ pc = "retry"
    /\ pc' = "lookup"
    /\ UNCHANGED <<livechat_id_clone, page_token, items, wait_for_millis,
                   chat_message, insert_result, polls, fetched, resolutions, resolved,
                   received, response_token, pending_delay, ingested,
                   storeVars, sent, subVars, callerVars, rpcVars>>

\* ------------------------------------------------------------ specifications
InitSubs ==
    /\ relay = [s \in Subs |-> "none"]
    /\ next = [s \in Subs |-> 1]
    /\ registered_at = [s \in Subs |-> 0]
    /\ message = [s \in Subs |-> None]
    /\ chan = [s \in Subs |-> <<>>]
    /\ rx_open = [s \in Subs |-> FALSE]
    /\ delivered = [s \in Subs |-> <<>>]

InitFetch ==
    /\ page_token = None
    /\ items = <<>>
    /\ wait_for_millis = 0
    /\ chat_message = None
    /\ insert_result = None
    /\ polls = 0
    /\ fetched = 0
    /\ resolutions = 0
    /\ resolved = None
    /\ received = <<>>
    /\ response_token = None
    /\ pending_delay = 0
    /\ ingested = {}

\* YouTubeServiceImpl::new with the livechat id main determined
\* (server.rs:401-406); no call has been made.
InitService ==
    /\ yts_livechat_id = None
    /\ livechat_id = "c1"
    /\ submitted = <<>>
    /\ send_calls = 0
    /\ send_response = [code |-> "None", message |-> <<>>]
    /\ get_calls = 0
    /\ get_request = [limit |-> 0, offset |-> 0]
    /\ get_response = [code |-> "None", messages |-> <<>>]

\* The schema of livechat_messages is not part of the sources; the design
\* requires a unique constraint on the external message id.
UniqueConstraint == TRUE

\* main, server.rs:394-414: the livechat id is determined, the table is
\* whatever earlier runs left (empty here), the channel has no receiver (the
\* one channel() returns is dropped at once), the server and fetch_messages
\* start together.
Init ==
    /\ pc = "poll"
    /\ livechat_id_clone = "c1"
    /\ InitFetch
    /\ rows = <<>>
    /\ unique_youtube_id = UniqueConstraint
    /\ sent = <<>>
    /\ InitSubs
    /\ caller_pc = [c \in Callers |-> "idle"]
    /\ caller_id = [c \in Callers |-> None]
    /\ caller_result = [c \in Callers |-> None]
    /\ InitService

Next ==
    \/ Poll
    \/ Recover
    \/ Backoff
    \/ MapItem
    \/ Insert
    \/ Publish
    \/ Sleep
    \/ \E s \in 1..MaxSubs : SubscribeMessages(s)
    \/ \E s \in Subs : RelayRecv(s)
    \/ \E s \in Subs : RelayCheck(s)
    \/ \E s \in Subs : RelaySend(s)
    \/ \E s \in Subs : Consume(s)
    \/ \E s \in Subs : Disconnect(s)

Spec == Init /\ [][Next]_vars

\* The same program with an upstream that returns one text message per
\* request and MaxFanoutSubs clients.
NextFanout ==
    \/ FanoutPoll
    \/ MapItem
    \/ FanoutInsert
    \/ Publish
    \/ Sleep
    \/ \E s \in 1..MaxFanoutSubs : SubscribeMessages(s)
    \/ \E s \in Subs : RelayRecv(s)
    \/ \E s \in Subs : RelayCheck(s)
    \/ \E s \in Subs : RelaySend(s)
    \/ \E s \in Subs : Consume(s)
    \/ \E s \in Subs : Disconnect(s)

SpecFanout == Init /\ [][NextFanout]_vars

\* The same with one client and MaxStallPolls requests: enough messages to
\* fill the client's mpsc channel.
NextStall ==
    \/ StallPoll
    \/ MapItem
    \/ FanoutInsert
    \/ Publish
    \/ Sleep
    \/ \E s \in 1..1 : SubscribeMessages(s)
    \/ \E s \in Subs : RelayRecv(s)
    \/ \E s \in Subs : RelayCheck(s)
    \/ \E s \in Subs : RelaySend(s)
    \/ \E s \in Subs : Consume(s)
    \/ \E s \in Subs : Disconnect(s)

SpecStall == Init /\ [][NextStall]_vars

\* The same program with an upstream that fails a list request or returns
\* one text message, one client, and callers of send_message.
SendPollResponses == FailedResponses \cup FanoutResponses

SendPoll == ListMessages(SendPollResponses, MaxSendPolls, MaxSendPolls)

NextSend ==
    \/ SendPoll
    \/ Recover
    \/ Backoff
    \/ MapItem
    \/ FanoutInsert
    \/ Publish
    \/ Sleep
    \/ \E s \in 1..1 : SubscribeMessages(s)
    \/ \E s \in Subs : RelayRecv(s)
    \/ \E s \in Subs : RelayCheck(s)
    \/ \E s \in Subs : RelaySend(s)
    \/ \E s \in Subs : Consume(s)
    \/ \E s \in Subs : Disconnect(s)
    \/ SendMessage

SpecSend == Init /\ [][NextSend]_vars

\* The same program with an upstream that returns pages of text messages,
\* one client, and callers of get_messages.
QueryItems ==
    {[id |-> "a", type |-> TextType, sent_at |-> 1, missing |-> None],
     [id |-> "b", type |-> TextType, sent_at |-> 2, missing |-> None],
     [id |-> "c", type |-> TextType, sent_at |-> 2, missing |-> None]}

QueryResponses ==
    [kind : {"ok"}, items : SeqsUpTo(QueryItems, MaxPage) \ {<<>>},
     next_page_token : {None}, polling_interval_millis : {<<1>>}]

QueryPoll == ListMessages(QueryResponses, MaxQueryPolls, MaxQueryPolls * MaxPage)

NextQuery ==
    \/ QueryPoll
    \/ MapItem
    \/ FanoutInsert
    \/ Publish
    \/ Sleep
    \/ \E s \in 1..1 : SubscribeMessages(s)
    \/ \E s \in Subs : RelayRecv(s)
    \/ \E s \in Subs : RelayCheck(s)
    \/ \E s \in Subs : RelaySend(s)
    \/ \E s \in Subs : Consume(s)
    \/ \E s \in Subs : Disconnect(s)
    \/ GetMessages

SpecQuery == Init /\ [][NextQuery]_vars

\* The same program with an upstream that returns one text message per
\* request, the k-th with sent_at k, a first client that connects before
\* the first message and reads nothing until its receiver has overflowed,
\* and a second client that connects after LateJoin messages.
LagResponses ==
    {[kind |-> "ok",
      items |-> <<[id |-> "a", type |-> TextType, sent_at |-> polls + 1,
                   missing |-> None]>>,
      next_page_token |-> None,
      polling_interval_millis |-> <<1>>]}

LagPoll == ListMessages(LagResponses, MaxLagPolls, MaxLagPolls)

LagSubscribe(s) ==
    /\ IF s = 1 THEN sent = <<>> ELSE Len(sent) >= LateJoin
    /\ SubscribeMessages(s)

LagConsume(s) ==
    /\ s = 1 => Lagged(s)
    /\ Consume(s)

NextLag ==
    \/ LagPoll
    \/ MapItem
    \/ FanoutInsert
    \/ Publish
    \/ Sleep
    \/ \E s \in 1..2 : LagSubscribe(s)
    \/ \E s \in Subs : RelayRecv(s)
    \/ \E s \in Subs : RelayCheck(s)
    \/ \E s \in Subs : RelaySend(s)
    \/ \E s \in Subs : LagConsume(s)

SpecLag == Init /\ [][NextLag]_vars

\* The same program with an upstream that returns one text message per
\* request, the k-th with sent_at k, and two clients that connect and
\* disconnect at any time; a client that connects again is another
\* subscriber.
JoinPoll == ListMessages(LagResponses, MaxJoinPolls, MaxJoinPolls)

NextJoin ==
    \/ JoinPoll
    \/ MapItem
    \/ FanoutInsert
    \/ Publish
    \/ Sleep
    \/ \E s \in 1..2 : SubscribeMessages(s)
    \/ \E s \in Subs : RelayRecv(s)
    \/ \E s \in Subs : RelayCheck(s)
    \/ \E s \in Subs : RelaySend(s)
    \/ \E s \in Subs : Consume(s)
    \/ \E s \in Subs : Disconnect(s)

SpecJoin == Init /\ [][NextJoin]_vars

\* Callers of insert_chat_message running at the same time on a table that
\* holds any rows of distinct ids; the fetch loop and the server are off.
\* The program from the entry of main's loop of server.rs:381, with
\* YTS_LIVECHAT_ID unset or set, an upstream that fails a list request or
\* returns one text message, one client of subscribe_messages, and callers
\* of send_message and get_messages.
InitMain ==
    /\ pc = "lookup"
    /\ livechat_id_clone = None
    /\ InitFetch
    /\ rows = <<>>
    /\ unique_youtube_id = UniqueConstraint
    /\ sent = <<>>
    /\ InitSubs
    /\ caller_pc = [c \in Callers |-> "idle"]
    /\ caller_id = [c \in Callers |-> None]
    /\ caller_result = [c \in Callers |-> None]
    /\ yts_livechat_id \in {None} \cup ChatIds
    /\ livechat_id = None
    /\ submitted = <<>>
    /\ send_calls = 0
    /\ send_response = [code |-> "None", message |-> <<>>]
    /\ get_calls = 0
    /\ get_request = [limit |-> 0, offset |-> 0]
    /\ get_response = [code |-> "None", messages |-> <<>>]

MainPoll == ListMessages(SendPollResponses, MaxMainPolls, MaxMainPolls)

NextMain ==
    \/ DetermineLivechatId
    \/ RetrySleep
    \/ MainPoll
    \/ Recover
    \/ Backoff
    \/ MapItem
    \/ FanoutInsert
    \/ Publish
    \/ Sleep
    \/ \E s \in 1..1 : SubscribeMessages(s)
    \/ \E s \in Subs : RelayRecv(s)
    \/ \E s \in Subs : RelayCheck(s)
    \/ \E s \in Subs : RelaySend(s)
    \/ \E s \in Subs : Consume(s)
    \/ \E s \in Subs : Disconnect(s)
    \/ SendMessage
    \/ GetMessages

SpecMain == InitMain /\ [][NextMain]_vars

StoredTables ==
    {<<>>} \cup {<<[youtube_id |-> i, sent_at |-> 1]>> : i \in MessageIds}
      \cup {<<[youtube_id |-> p[1], sent_at |-> 1], [youtube_id |-> p[2], sent_at |-> 1]>> :
              p \in {q \in MessageIds \X MessageIds : q[1] # q[2]}}

InitRace ==
    /\ pc = "off"
    /\ livechat_id_clone = "c1"
    /\ InitFetch
    /\ rows \in StoredTables
    /\ unique_youtube_id = UniqueConstraint
    /\ sent = <<>>
    /\ InitSubs
    /\ caller_pc = [c \in Callers |-> "exists"]
    /\ caller_id \in [Callers -> MessageIds]
    /\ caller_result = [c \in Callers |-> None]
    /\ InitService

NextRace ==
    \/ \E c \in Callers : CallerExists(c)
    \/ \E c \in Callers : CallerInsert(c)

SpecRace == InitRace /\ [][NextRace]_vars


\* ------------------------------------------------------------------ claims
\* Rows of the table with the given youtube_id; values of the channel with
\* the given message id.
Count(table, id) == Cardinality({i \in 1..Len(table) : table[i].youtube_id = id})

Published(id) == Cardinality({i \in 1..Len(sent) : sent[i].message_id = id})

\* C1: whatever the polls returned, the table holds exactly one row for every
\* message id that insert_chat_message accepted, and no row for any other id,
\* however often the id came back in the same page or in later pages.
C1_OneRowPerId ==
    \A id \in MessageIds :
        Count(rows, id) = IF id \in ingested THEN 1 ELSE 0

\* C1 witness: "a" went through the loop three times in two polls (twice in
\* one page, once in another) and has one row.
C1_Witness ==
    /\ polls = 2
    /\ Published("a") = 3
    /\ Count(rows, "a") = 1

\* C2: no message id is sent to the broadcast channel more than once.
C2_PublishedOnce == \A id \in MessageIds : Published(id) <= 1


\* What was sent to the channel since s subscribed; what of it is still on
\* its way to the client of s: in the mpsc channel, held by the relay task,
\* unread in the broadcast channel.
PublishedTo(s) == SubSeq(sent, registered_at[s] + 1, Len(sent))

Held(s) == IF relay[s] \in {"check", "send"} THEN <<message[s]>> ELSE <<>>

Unread(s) == SubSeq(sent, next[s], Len(sent))

IsPrefix(p, q) == Len(p) <= Len(q) /\ p = SubSeq(q, 1, Len(p))

\* C3: for every subscriber whose client is connected and whose relay runs,
\* what the client has read, followed by what is on its way, is exactly what
\* was published since it subscribed, in publish order: nothing is lost or
\* reordered, whatever the other subscribers do.  A client that has
\* disconnected has read a prefix of what was published since it subscribed.
C3_FanOutInOrder ==
    \A s \in Subs :
        relay[s] # "none" =>
            IF rx_open[s] /\ relay[s] # "done"
            THEN delivered[s] \o chan[s] \o Held(s) \o Unread(s) = PublishedTo(s)
            ELSE IsPrefix(delivered[s], PublishedTo(s))

\* C3 witness: three messages, not all equal, were published to two
\* subscribers; the first client stayed and has read all three in order, the
\* second left after reading one.
C3_Witness ==
    /\ Len(sent) = 3
    /\ sent[1] # sent[2]
    /\ registered_at[1] = 0 /\ registered_at[2] = 0
    /\ rx_open[1] /\ delivered[1] = sent
    /\ ~rx_open[2] /\ relay[2] = "done" /\ Len(delivered[2]) = 1


\* C4: publishing never fails: tx.send never makes fetch_messages return,
\* whatever subscriptions are registered, none included.
C4_PublishNeverFails == pc # "returned"

\* C5: the publish step never waits: whenever the fetch loop is at tx.send
\* the step can be taken, whatever the broadcast channel and the mpsc
\* channels of the subscribers hold.
C5_PublishNeverWaits == pc = "publish" => ENABLED Publish

\* C5 witness: the fetch loop is at tx.send while a subscriber's client has
\* read nothing, its mpsc channel is full and its relay waits in send with
\* one more message.
C5_Witness ==
    /\ pc = "publish"
    /\ \E s \in Subs :
         /\ rx_open[s]
         /\ delivered[s] = <<>>
         /\ Len(chan[s]) = MpscCapacity
         /\ relay[s] = "send"

\* C6: when the fetch loop is about to issue a list request after a
\* get_livechat_id call that returned an id, exactly one such call was made
\* since the failed request, the id is the one in use and the page token is
\* unset.
C6_ResumesWithClearedToken ==
    (pc = "poll" /\ resolved # None) =>
        /\ resolutions = 1
        /\ livechat_id_clone = resolved
        /\ page_token = None

\* C7: the fetch loop is always polling or recovering; it never ends.
C7_NoTerminalState ==
    pc \in {"poll", "map", "insert", "publish", "sleep", "recover", "backoff"}


\* C8: when callers of insert_chat_message that were given the same message
\* id have all returned, the table holds exactly one row of that id and each
\* of them got Ok.
C8_BothSucceed ==
    (\A c \in Callers : caller_pc[c] = "done") =>
        \A c, d \in Callers :
            (c # d /\ caller_id[c] = caller_id[d]) =>
                /\ Count(rows, caller_id[c]) = 1
                /\ caller_result[c] = "Ok"
                /\ caller_result[d] = "Ok"

\* C9: an item that cannot be converted to a chat message does not abort the
\* fetch loop.
C9_BadItemSkipped ==
    [][(pc = "map" /\ Panics(Head(items))) => pc' # "panicked"]_vars

\* C10: after insert_chat_message returned an error for an item, the fetch
\* loop goes on to the next item of the page or to the next poll.
C10_StorageFailureNotFatal ==
    [][(pc = "publish" /\ insert_result = "Err")
          => pc' \in {"publish", "map", "sleep"}]_vars

\* C11: every message send_message submits carries the live chat id the
\* fetch loop polls at that moment, the id it adopted in a recovery included.
C11_SendsToPolledChat ==
    [][Len(submitted') > Len(submitted)
          => submitted'[Len(submitted')].message.live_chat_id = livechat_id_clone]_vars

\* C12: a send_message call issues exactly one insert request; when the
\* request is rejected the call answers Internal with a message that carries
\* what the upstream error carried, otherwise it answers Empty; the table,
\* the broadcast channel and the subscriptions are left as they were.
C12_OneSubmitNoRetry ==
    [][send_calls' # send_calls =>
          /\ send_calls' = send_calls + 1
          /\ Len(submitted') = Len(submitted) + 1
          /\ LET o == submitted'[Len(submitted')].outcome IN
               IF o.kind = "Ok"
               THEN send_response' = [code |-> "Ok", message |-> <<>>]
               ELSE /\ send_response'.code = "Internal"
                    /\ \E i \in DOMAIN send_response'.message :
                           send_response'.message[i] = o.detail
          /\ UNCHANGED <<storeVars, sent, subVars>>]_vars

\* C12 witness: with a row stored, a message published and a subscriber
\* registered, one send_message call was rejected and answered Internal and
\* the next was accepted and answered Empty, with one request each.
C12_Witness ==
    /\ send_calls = 2
    /\ Len(submitted) = 2
    /\ submitted[1].outcome.kind = "Io"
    /\ submitted[2].outcome.kind = "Ok"
    /\ send_response.code = "Ok"
    /\ rows # <<>>
    /\ sent # <<>>
    /\ relay[1] = "recv"

\* What a get_messages call may answer on a table: the rows in an order of
\* non-increasing sent_at, the first offset of them skipped, at most limit
\* of the rest.
Sorted(q) == \A i, j \in 1..Len(q) : i < j => q[i].sent_at >= q[j].sent_at

SameRows(q, table) ==
    /\ Len(q) = Len(table)
    /\ \A id \in {table[i].youtube_id : i \in 1..Len(table)} :
          Cardinality({i \in 1..Len(q) : q[i].message_id = id}) = Count(table, id)
    /\ \A i \in 1..Len(q) : \E j \in 1..Len(table) :
          q[i] = [message_id |-> table[j].youtube_id, sent_at |-> table[j].sent_at]

Answers(table, limit, offset, messages) ==
    \E before \in SeqsUpTo({YouTubeChatMessage(table[i]) : i \in 1..Len(table)}, offset),
       after \in SeqsUpTo({YouTubeChatMessage(table[i]) : i \in 1..Len(table)}, Len(table)) :
        /\ SameRows(before \o messages \o after, table)
        /\ Sorted(before \o messages \o after)
        /\ Len(before) = (IF offset < Len(table) THEN offset ELSE Len(table))
        /\ Len(messages) <= limit
        /\ after # <<>> => Len(messages) = limit

\* The page of the scenario: the text messages "a" and "b", "b" sent later.
PageAB ==
    <<[id |-> "a", type |-> TextType, sent_at |-> 1, missing |-> None],
      [id |-> "b", type |-> TextType, sent_at |-> 2, missing |-> None]>>

\* C13: a get_messages call that answers returns the rows ordered by sent_at
\* descending, offset of them skipped and at most limit returned, and changes
\* neither the table nor the broadcast channel; and when the one list
\* request so far returned the text messages "a" and "b" and the fetch loop
\* is not working on that page any more, get_messages(10, 0) answers "b",
\* then "a".
C13_GetMessages ==
    [][(get_calls' # get_calls /\ get_response'.code = "Ok") =>
          /\ Answers(rows, get_request'.limit, get_request'.offset,
                     get_response'.messages)
          /\ UNCHANGED <<storeVars, sent, subVars>>
          /\ (/\ polls = 1
              /\ received = PageAB
              /\ pc \notin {"map", "insert", "publish"}
              /\ get_request' = [limit |-> 10, offset |-> 0])
             => get_response'.messages =
                    <<[message_id |-> "b", sent_at |-> 2],
                      [message_id |-> "a", sent_at |-> 1]>>]_vars

\* C14: a subscriber whose receiver was overflowed (more than
\* BroadcastCapacity values unread) never goes on with a gap: what its
\* client has read or is about to read is a prefix of what was published
\* since it subscribed, and once its relay has ended nothing more reaches
\* its stream; the publish step is never blocked; and every other subscriber
\* whose client is connected and whose relay runs has read, or has on its
\* way, everything published since it subscribed, in order.
C14_OverflowDropsSubscriber ==
    /\ pc = "publish" => ENABLED Publish
    /\ \A s \in Subs :
          relay[s] # "none" =>
              /\ IsPrefix(delivered[s] \o chan[s] \o Held(s), PublishedTo(s))
              /\ (rx_open[s] /\ relay[s] # "done") =>
                     delivered[s] \o chan[s] \o Held(s) \o Unread(s) = PublishedTo(s)
              /\ relay[s] = "done" => message[s] = None

\* C14 witness: the first subscriber's receiver was overflowed and its relay
\* has ended with its client still connected; the second subscriber's client
\* has read everything published since it subscribed, the message that
\* overflowed the first included.
C14_Witness ==
    /\ relay[1] = "done" /\ rx_open[1]
    /\ Len(sent) - (next[1] - 1) > BroadcastCapacity
    /\ Len(delivered[1] \o chan[1]) < Len(PublishedTo(1))
    /\ relay[2] = "recv" /\ rx_open[2]
    /\ registered_at[2] < next[1] + BroadcastCapacity - 1
    /\ delivered[2] = PublishedTo(2)
    /\ delivered[2] # <<>>

\* C15: once the client of a subscriber has disconnected, its relay task
\* ends without the help of a further publish: as long as it has not ended it
\* can take a step of its own, so that in every fair execution it ends and
\* its receiver is dropped.
C15_RelayEndsOnDisconnect ==
    \A s \in Subs :
        (~rx_open[s] /\ relay[s] \in {"recv", "check", "send"}) =>
            ENABLED (RelayRecv(s) \/ RelayCheck(s) \/ RelaySend(s))

\* The positions in the channel of the values equal to m.
PositionsOf(m) == {i \in 1..Len(sent) : sent[i] = m}

\* C16: every message a subscriber's client has read, or that is in its
\* mpsc channel or held by its relay, was sent to the broadcast channel
\* after the subscriber's receiver was created and not before, whatever the
\* channel or the other subscribers held at that time; a client that
\* connects again gets a new receiver and is no exception.
C16_OnlyAfterRegistration ==
    \A s \in Subs :
        LET got == delivered[s] \o chan[s] \o Held(s) IN
        \A k \in 1..Len(got) :
            /\ PositionsOf(got[k]) # {}
            /\ \A i \in PositionsOf(got[k]) : i > registered_at[s]

\* C16 witness: the first client read the first message and disconnected;
\* the second connected after two messages had been published, while the
\* relay of the first was still running, and has read the third message and
\* nothing else.
C16_Witness ==
    /\ Len(sent) = 3
    /\ ~rx_open[1] /\ delivered[1] = <<sent[1]>>
    /\ registered_at[1] = 0
    /\ registered_at[2] = 2 /\ rx_open[2]
    /\ delivered[2] = <<sent[3]>>

\* C17: after a get_livechat_id call that returned no id the fetch loop
\* calls get_livechat_id again before it issues another list request: a
\* list request is issued only when no such call was made since the last
\* request or when one of them returned an id.
C17_RetriesResolution ==
    [][polls' # polls => (resolutions = 0 \/ resolved # None)]_vars

\* C18: an item whose type is not textMessageEvent is dropped whatever
\* fields it has or lacks: the step that takes it off the page leaves the
\* table and the broadcast channel as they are and goes on to the next item
\* or, after the last, to the sleep; and the table and the channel change
\* only for a text message.
C18_OtherTypesDropped ==
    [][/\ (/\ pc = "map"
           /\ Head(items).type # TextType
           /\ <<pc, items>>' # <<pc, items>>) =>
             /\ items' = Tail(items)
             /\ pc' = IF Tail(items) = <<>> THEN "sleep" ELSE "map"
             /\ UNCHANGED <<storeVars, sent>>
       /\ (rows' # rows \/ sent' # sent) => Head(items).type = TextType]_vars

\* C19: whenever a message is sent to the broadcast channel, a row with its
\* message id is in the table, also when a statement of insert_chat_message
\* failed.
C19_StoredBeforePublished ==
    [][sent' # sent => Exists(rows, chat_message.message_id)]_vars

\* The text messages among the given items, as the fetch loop builds them.
RECURSIVE TextMessages(_)
TextMessages(q) ==
    IF q = <<>> THEN <<>>
    ELSE IF Head(q).type = TextType
         THEN <<ChatMessage(Head(q))>> \o TextMessages(Tail(q))
         ELSE TextMessages(Tail(q))

\* C20: the broadcast channel was sent the text messages of the returned
\* pages in the order of the pages and, within a page, of its items: while a
\* page is being worked on, what was sent followed by the text messages left
\* on the page is the text messages of all pages returned; and the loop is
\* at a list request, at its sleep or in recovery only with no item of the
\* last page left and every text message of every page sent.
C20_PublishedInPageOrder ==
    /\ IsPrefix(sent, TextMessages(received))
    /\ pc \in {"map", "insert", "publish"} =>
          sent \o TextMessages(items) = TextMessages(received)
    /\ pc \in {"poll", "sleep", "recover", "backoff"} =>
          /\ items = <<>>
          /\ sent = TextMessages(received)

\* C20 witness: two list requests returned three different text messages,
\* two of them in one page, and the three were sent in that order; the loop
\* is at its sleep after the second page.
C20_Witness ==
    /\ polls = 2 /\ pc = "sleep"
    /\ Len(received) = 3
    /\ Cardinality({received[i] : i \in 1..3}) = 3
    /\ Len(sent) = 3
    /\ sent = TextMessages(received)

\* C21: the first list request carries no page token; a list request that
\* follows a request that returned a page carries the next_page_token of
\* that page (none if it had none) and is issued with nothing left to wait
\* of the polling interval of that page.
C21_TokenCarriedForward ==
    [][polls' # polls =>
          /\ polls = 0 => ListRequest.page_token = None
          /\ (polls > 0 /\ resolutions = 0) =>
                /\ ListRequest.page_token = response_token
                /\ pending_delay = 0]_vars

\* C21 witness: two list requests returned pages (three items, at most
\* MaxPage in a page), the second with the token "t1"; the loop has slept
\* and is at its third request.
C21_Witness ==
    /\ pc = "poll" /\ polls = 2 /\ resolutions = 0
    /\ Len(received) = 3
    /\ response_token = "t1"
    /\ ListRequest.page_token = "t1"
    /\ pending_delay = 0

\* C22: a get_livechat_id call of the recovery that returns no id (or
\* panics) leaves the live chat id in use and the page token as they were;
\* the live chat id in use changes only in a recovery step whose
\* get_livechat_id call returned an id, and then to that id.
C22_FailedResolutionKeepsCursor ==
    [][/\ (pc = "recover" /\ pc' \in {"backoff", "panicked"}) =>
             /\ livechat_id_clone' = livechat_id_clone
             /\ page_token' = page_token
       /\ livechat_id_clone' # livechat_id_clone =>
             /\ pc = "recover"
             /\ resolved' \in ChatIds
             /\ livechat_id_clone' = resolved']_vars

\* C22 witness: an earlier recovery adopted "c2" and a later page set the
\* page token "t1"; after the next failed request get_livechat_id returned
\* no id, and both are as they were.
C22_Witness ==
    /\ pc = "backoff" /\ resolutions = 1 /\ resolved = None
    /\ polls = 3
    /\ livechat_id_clone = "c2"
    /\ page_token = "t1"

\* C23: while main has no livechat id no list request has been issued, no
\* send_message, get_messages or subscribe_messages call has been served and
\* nothing has been published.  With YTS_LIVECHAT_ID set, the first
\* iteration of main's loop takes its value, without a get_livechat_id
\* call, and starts the server and fetch_messages with it.  With it unset,
\* every iteration calls get_livechat_id once: when the call returns no id
\* the loop sleeps 30 s and runs the next iteration, and the server and
\* fetch_messages start only in an iteration whose call returned an id,
\* with that id.  (A call that panics ends the process, nothing started.)
Starting == pc \in {"lookup", "retry"}

C23_StartsAfterLivechatId ==
    /\ [](livechat_id = None =>
             /\ polls = 0 /\ sent = <<>>
             /\ send_calls = 0 /\ get_calls = 0
             /\ \A s \in Subs : relay[s] = "none")
    /\ [](Starting => livechat_id = None)
    /\ [][/\ (pc = "lookup" /\ yts_livechat_id # None) =>
               /\ pc' = "poll"
               /\ resolutions' = 0
               /\ livechat_id' = yts_livechat_id
               /\ livechat_id_clone' = yts_livechat_id
          /\ (pc = "lookup" /\ yts_livechat_id = None) =>
               /\ resolutions' = resolutions + 1
               /\ \/ pc' \in {"retry", "panicked"} /\ livechat_id' = None
                  \/ /\ pc' = "poll"
                     /\ resolved' \in ChatIds
                     /\ livechat_id' = resolved'
                     /\ livechat_id_clone' = resolved'
          /\ pc = "retry" =>
               /\ pc' = "lookup"
               /\ resolutions' = resolutions
               /\ livechat_id' = None]_vars

\* C23 witness: the first get_livechat_id call of main returned no id, the
\* second returned "c2" after the sleep; the server serves calls and
\* fetch_messages is about to poll with that id.
C23_Witness ==
    /\ yts_livechat_id = None
    /\ livechat_id = "c2"
    /\ livechat_id_clone = "c2"
    /\ pc = "poll" /\ polls = 0 /\ resolutions = 2
    /\ send_calls = 1
    /\ Len(submitted) = 1 /\ submitted[1].message.live_chat_id = "c2"
    /\ relay[1] # "none"

\* C24: once fetch_messages has returned with the error of tx.send, the
\* process stays as it is: a send_message, a get_messages and a
\* subscribe_messages call can still be served, no step ends the process or
\* a relay task (the streams of the clients stay open), no list request is
\* issued and nothing is sent to the broadcast channel any more.
C24_ServerOutlivesFetchLoop ==
    /\ [](pc = "returned" =>
             /\ send_calls < MaxSends => ENABLED SendMessage
             /\ get_calls < MaxGets => ENABLED GetMessages
             /\ relay[1] = "none" => ENABLED SubscribeMessages(1))
    /\ [][pc = "returned" =>
             /\ pc' = "returned"
             /\ sent' = sent
             /\ polls' = polls
             /\ \A s \in Subs : relay[s] # "none" => relay'[s] = relay[s]]_vars

\* C24 witness: the first text message found no receiver and fetch_messages
\* returned; the client registered afterwards (a receiver registered before
\* would have taken the message) has its relay waiting in recv, and the
\* send_message and get_messages calls have been answered.
C24_Witness ==
    /\ pc = "returned"
    /\ sent = <<>> /\ Len(rows) = 1
    /\ relay[1] = "recv" /\ rx_open[1]
    /\ send_calls = MaxSends /\ send_response = Empty
    /\ get_calls = MaxGets /\ get_response.code = "Ok"
    /\ Len(get_response.messages) = 1

====
